---- MODULE Spec2Model ----
(***************************************************************************)
(* The RAGFlow conversation plugin: the streaming response decoder of the  *)
(* API client (RAGFlowApi.sendOpenAICompatibleMessage and the closure      *)
(* processStreamingResponse it returns) and the conversation controller    *)
(* (ConversationModal.sendMessage) that drives it.                         *)
(*                                                                         *)
(* Text is a sequence of characters and a response body a sequence of      *)
(* bytes.  One symbol stands for a run of ASCII bytes that the decoder     *)
(* only ever handles as a unit ("da" "ta:" is the event-data prefix,       *)
(* "{c" opens the frame {"choices":[{"delta":{"content":" and "c}" closes  *)
(* it); an ASCII symbol is its own character.  "E2" "82" "AC" are the      *)
(* three bytes of one multi-byte UTF-8 character.                          *)
(***************************************************************************)
EXTENDS Naturals, Sequences, FiniteSets, TLC

\* The longest response body, in lines.
MaxLines == 3

\* The longest conversation, in messages.
MaxMessages == 7

-----------------------------------------------------------------------------
(* JavaScript values: tagged records.                                      *)

Undefined == [t |-> "undef"]
Null == [t |-> "null"]
Str(s) == [t |-> "str", v |-> s]
Obj(fields) == [t |-> "obj", f |-> fields]
Arr(elems) == [t |-> "arr", e |-> elems]
Num(n) == [t |-> "num", v |-> n]

\* The truth value of v in a condition (if (v), !v, v && ...).
Truthy(v) ==
    CASE v.t = "undef" -> FALSE
      [] v.t = "null" -> FALSE
      [] v.t = "str" -> v.v # <<>>
      [] v.t = "num" -> v.v # 0
      [] OTHER -> TRUE

\* Reading a property of null or undefined throws a TypeError.
Throws(v) == v.t \in {"undef", "null"}

\* v.key, for a v on which it does not throw.
Get(v, key) ==
    IF v.t = "obj" /\ key \in DOMAIN v.f THEN v.f[key] ELSE Undefined

\* v.length
Length(v) ==
    CASE v.t = "arr" -> Len(v.e)
      [] v.t = "str" -> Len(v.v)
      [] OTHER -> 0

\* v[0]
First(v) ==
    IF v.t = "arr" /\ Len(v.e) > 0 THEN v.e[1]
    ELSE IF v.t = "str" /\ Len(v.v) > 0 THEN Str(<<v.v[1]>>)
    ELSE Undefined

\* Array.isArray(v)
IsArray(v) == v.t = "arr"

\* The text of v when it is appended to a string.
ToText(v) == IF v.t = "str" THEN v.v ELSE <<v.t>>

-----------------------------------------------------------------------------
(* Text: String.prototype.split('\n'), trim, startsWith, replace.           *)

LF == "LF"
WhiteSpace == {"SP", "CR", "LF"}
DataPrefix == <<"da", "ta:">>
DoneSentinel == <<"[DO", "NE]">>
FrameOpen == "{c"
FrameClose == "c}"
ReplacementChar == "FFFD"

\* buffer.split('\n'): the segments between line feeds, at least one.
RECURSIVE SplitFrom(_, _, _)
SplitFrom(text, cur, acc) ==
    IF text = <<>> THEN Append(acc, cur)
    ELSE IF Head(text) = LF THEN SplitFrom(Tail(text), <<>>, Append(acc, cur))
    ELSE SplitFrom(Tail(text), Append(cur, Head(text)), acc)

SplitLines(text) == SplitFrom(text, <<>>, <<>>)

RECURSIVE TrimStart(_)
TrimStart(s) ==
    IF s # <<>> /\ Head(s) \in WhiteSpace THEN TrimStart(Tail(s)) ELSE s

RECURSIVE TrimEnd(_)
TrimEnd(s) ==
    IF s # <<>> /\ s[Len(s)] \in WhiteSpace
    THEN TrimEnd(SubSeq(s, 1, Len(s) - 1)) ELSE s

Trim(s) == TrimEnd(TrimStart(s))

StartsWith(s, prefix) ==
    Len(s) >= Len(prefix) /\ SubSeq(s, 1, Len(prefix)) = prefix

\* line.replace('data:', '') on a line that starts with the prefix: the
\* first occurrence, the one at the start, is removed.
RemoveDataPrefix(line) == SubSeq(line, Len(DataPrefix) + 1, Len(line))

-----------------------------------------------------------------------------
(* TextDecoder('utf-8').decode(value, {stream: true})                       *)

LeadBytes == {"E2"}
ContinuationBytes == {"82", "AC"}

\* The character of a complete three-byte sequence.
CodePoint(seq) == seq[1] \o seq[2] \o seq[3]

\* The bytes of a chunk through the decoder, which holds an incomplete
\* sequence in pending: [text, pending].  An invalid byte gives U+FFFD and
\* the byte that ended the sequence is decoded again.
RECURSIVE DecodeFrom(_, _, _)
DecodeFrom(bytes, pending, out) ==
    IF bytes = <<>> THEN [text |-> out, pending |-> pending]
    ELSE LET b == Head(bytes) IN
        IF pending = <<>> THEN
            IF b \in LeadBytes THEN DecodeFrom(Tail(bytes), <<b>>, out)
            ELSE IF b \in ContinuationBytes
            THEN DecodeFrom(Tail(bytes), <<>>, Append(out, ReplacementChar))
            ELSE DecodeFrom(Tail(bytes), <<>>, Append(out, b))
        ELSE IF b \in ContinuationBytes THEN
            IF Len(pending) = 2
            THEN DecodeFrom(Tail(bytes), <<>>,
                            Append(out, CodePoint(Append(pending, b))))
            ELSE DecodeFrom(Tail(bytes), Append(pending, b), out)
        ELSE DecodeFrom(bytes, <<>>, Append(out, ReplacementChar))

\* decode(value) without the stream option: what is incomplete at the end
\* of a chunk comes out as U+FFFD and nothing is carried over.
decodeEachChunkAlone(bytes, pending) ==
    LET d == DecodeFrom(bytes, <<>>, <<>>) IN
    [text |-> IF d.pending = <<>> THEN d.text
              ELSE Append(d.text, ReplacementChar),
     pending |-> <<>>]

decode(bytes, pending) == DecodeFrom(bytes, pending, <<>>)

-----------------------------------------------------------------------------
(* JSON.parse                                                               *)

\* The characters a JSON string may hold unescaped.
StringChars == {"a", "b", "SP", "E282AC", ReplacementChar}

IsString(s) == \A i \in 1..Len(s) : s[i] \in StringChars

\* The frame {"choices":[{"delta":{"content": s}}]}.
DeltaFrame(s) ==
    Obj([choices |-> Arr(<<Obj([delta |-> Obj([content |-> Str(s)])])>>)])

\* The frame {"choices":[{"delta":{}}]}, one symbol.
NoContentFrame == "{choices:[{delta:{}}]}"

\* JSON.parse(text): [ok, value]; not ok is a SyntaxError.
JSONParse(text) ==
    IF Len(text) >= 2 /\ text[1] = FrameOpen /\ text[Len(text)] = FrameClose
       /\ IsString(SubSeq(text, 2, Len(text) - 1))
    THEN [ok |-> TRUE, value |-> DeltaFrame(SubSeq(text, 2, Len(text) - 1))]
    ELSE IF text = <<"{}">> THEN [ok |-> TRUE, value |-> Obj(<<>>)]
    ELSE IF text = <<NoContentFrame>>
    THEN [ok |-> TRUE,
          value |-> Obj([choices |-> Arr(<<Obj([delta |-> Obj(<<>>)])>>)])]
    ELSE IF text = <<"null">> THEN [ok |-> TRUE, value |-> Null]
    ELSE [ok |-> FALSE, value |-> Undefined]

-----------------------------------------------------------------------------
(* The conversation's message list (ConversationModal.messages).            *)

WaitingText == <<"thinking">>
ErrorMark == "ErrorMark"

\* addMessage: the message gets a fresh id and goes to the end of the list.
addMessage(msgs, id, role, content, isTemporary) ==
    Append(msgs, [id |-> id, role |-> role, content |-> content,
                  isTemporary |-> isTemporary])

\* removeMessage: the first message with the id leaves the list.
removeMessage(msgs, messageId) ==
    IF \E i \in 1..Len(msgs) : msgs[i].id = messageId
    THEN LET i == CHOOSE j \in 1..Len(msgs) :
                      /\ msgs[j].id = messageId
                      /\ \A k \in 1..(j - 1) : msgs[k].id # messageId
         IN SubSeq(msgs, 1, i - 1) \o SubSeq(msgs, i + 1, Len(msgs))
    ELSE msgs

\* updateMessageContent: the first message with the id gets the content.
updateMessageContent(msgs, messageId, content) ==
    IF \E i \in 1..Len(msgs) : msgs[i].id = messageId
    THEN LET i == CHOOSE j \in 1..Len(msgs) :
                      /\ msgs[j].id = messageId
                      /\ \A k \in 1..(j - 1) : msgs[k].id # messageId
         IN [msgs EXCEPT ![i].content = content]
    ELSE msgs

-----------------------------------------------------------------------------
(* processStreamingResponse: one line of the stream.                        *)

Skip == [kind |-> "skip", content |-> <<>>]
Thrown == [kind |-> "throw", content |-> <<>>]
Delta(text) == [kind |-> "delta", content |-> text]

\* A parsed frame whose content is handed on whenever it is a string, the
\* empty one too.
FrameOutcomeAnyString(jsonData) ==
    IF Throws(jsonData) THEN Thrown
    ELSE LET choices == Get(jsonData, "choices") IN
        IF ~(Truthy(choices) /\ Length(choices) > 0) THEN Skip
        ELSE IF Throws(First(choices)) THEN Thrown
        ELSE LET delta == Get(First(choices), "delta") IN
            IF Truthy(delta) /\ Get(delta, "content").t = "str"
            THEN Delta(ToText(Get(delta, "content")))
            ELSE Skip

\* A parsed frame: a delta when choices[0].delta.content is truthy.
FrameOutcome(jsonData) ==
    IF Throws(jsonData) THEN Thrown
    ELSE LET choices == Get(jsonData, "choices") IN
        IF ~(Truthy(choices) /\ Length(choices) > 0) THEN Skip
        ELSE IF Throws(First(choices)) THEN Thrown
        ELSE LET delta == Get(First(choices), "delta") IN
            IF Truthy(delta) /\ Truthy(Get(delta, "content"))
            THEN Delta(ToText(Get(delta, "content")))
            ELSE Skip

\* The sentinel is passed over before anything is parsed.
Parsed(p) == IF p.ok THEN FrameOutcome(p.value) ELSE Thrown

\* A payload that is no JSON passed on as it is, the sentinel not looked for.
PayloadOutcomeAsText(jsonStr) ==
    IF JSONParse(jsonStr).ok THEN FrameOutcome(JSONParse(jsonStr).value)
    ELSE Delta(jsonStr)

PayloadOutcome(jsonStr) ==
    IF jsonStr = DoneSentinel THEN Skip ELSE Parsed(JSONParse(jsonStr))

\* One line: only a non-blank line that starts with the prefix is looked at.
LineOutcome(line) ==
    IF Trim(line) # <<>> /\ StartsWith(line, DataPrefix)
    THEN PayloadOutcome(Trim(RemoveDataPrefix(line)))
    ELSE Skip

\* A callback that shows the chunk alone: fullAnswer is not accumulated.
CallbackShowsChunk(run, chunk, done, replyId) ==
    LET called == [run EXCEPT !.calls = Append(@, [chunk |-> chunk, done |-> done])]
    IN IF done THEN called
       ELSE [called EXCEPT
                !.fullAnswer = chunk,
                !.messages = updateMessageContent(@, replyId, chunk)]

\* The callback sendMessage passes to processStream: a chunk that is not
\* the final one is appended to fullAnswer, which becomes the content of the
\* reply message.  run is [fullContent, calls, fullAnswer, messages].
Callback(run, chunk, done, replyId) ==
    LET called == [run EXCEPT !.calls = Append(@, [chunk |-> chunk, done |-> done])]
    IN IF done THEN called
       ELSE [called EXCEPT
                !.fullAnswer = @ \o chunk,
                !.messages = updateMessageContent(@, replyId,
                                                  run.fullAnswer \o chunk)]

\* A delta handed to the callback and not added to fullContent.
DeliverUnaccumulated(run, text, replyId) ==
    Callback(run, text, FALSE, replyId)

\* A delta is added to fullContent and handed to the callback.
Deliver(run, text, replyId) ==
    Callback([run EXCEPT !.fullContent = @ \o text], text, FALSE, replyId)

\* The segments without the pop: the unterminated one is processed too.
EverySegment(lines) == lines

\* const lines = buffer.split('\n'); buffer = lines.pop() || '': all the
\* segments but the last are complete lines, and the last is kept.
CompleteLines(lines) == SubSeq(lines, 1, Len(lines) - 1)
Carry(lines) == lines[Len(lines)]

\* The outcome o of a line that did not throw: a delta is delivered.
Apply(run, o, replyId) ==
    IF o.kind = "delta" THEN Deliver(run, o.content, replyId) ELSE run

\* The lines of a read in one try around the loop: a line that throws ends
\* the loop.
RECURSIVE ProcessLinesInOneTry(_, _, _)
ProcessLinesInOneTry(lines, run, replyId) ==
    IF lines = <<>> THEN run
    ELSE IF LineOutcome(Head(lines)).kind = "throw" THEN run
    ELSE ProcessLinesInOneTry(Tail(lines),
                              Apply(run, LineOutcome(Head(lines)), replyId),
                              replyId)

\* The lines of a read taken from the end of the array.
RECURSIVE ProcessLinesFromLast(_, _, _)
ProcessLinesFromLast(lines, run, replyId) ==
    IF lines = <<>> THEN run
    ELSE ProcessLinesFromLast(SubSeq(lines, 1, Len(lines) - 1),
                              Apply(run, LineOutcome(lines[Len(lines)]), replyId),
                              replyId)

\* The lines of a read up to the sentinel: the loop is left at it.
RECURSIVE ProcessLinesUntilSentinel(_, _, _)
ProcessLinesUntilSentinel(lines, run, replyId) ==
    IF lines = <<>> THEN run
    ELSE IF /\ StartsWith(Head(lines), DataPrefix)
            /\ Trim(RemoveDataPrefix(Head(lines))) = DoneSentinel
    THEN run
    ELSE ProcessLinesUntilSentinel(Tail(lines),
                                   Apply(run, LineOutcome(Head(lines)), replyId),
                                   replyId)

\* The complete lines of a read, each in its own try: a line that throws
\* is logged and the loop goes on.
RECURSIVE ProcessLines(_, _, _)
ProcessLines(lines, run, replyId) ==
    IF lines = <<>> THEN run
    ELSE ProcessLines(Tail(lines),
                      Apply(run, LineOutcome(Head(lines)), replyId), replyId)

\* The end of the stream without a look at the buffer.
ProcessRestDropped(lines, run, replyId) == run

\* The rest of the buffer at the end of the stream, in one try around the
\* loop: a line that throws ends the loop.
RECURSIVE ProcessRest(_, _, _)
ProcessRest(lines, run, replyId) ==
    IF lines = <<>> THEN run
    ELSE IF LineOutcome(Head(lines)).kind = "throw" THEN run
    ELSE ProcessRest(Tail(lines),
                     Apply(run, LineOutcome(Head(lines)), replyId), replyId)

-----------------------------------------------------------------------------
(* What the service sends.                                                  *)

\* The lines a response body is made of, without their line feed.
ContentLineA == DataPrefix \o <<"SP", FrameOpen, "a", FrameClose>>
ContentLineB == DataPrefix \o <<FrameOpen, "b", FrameClose, "CR">>
ContentLineWide == DataPrefix \o <<"SP", FrameOpen, "E2", "82", "AC", FrameClose>>
SentinelLine == DataPrefix \o <<"SP">> \o DoneSentinel
MalformedLine == DataPrefix \o <<"SP", FrameOpen, "a">>
BlankLine == <<>>
CommentLine == <<"ev">>
EmptyDeltaLine == DataPrefix \o <<"SP", FrameOpen, FrameClose>>
TruncatedLine == ContentLineA \o <<"E2">>
NoContentLine == DataPrefix \o <<"SP", NoContentFrame>>

\* The lines the bodies of the model are made of.
LineKinds ==
    {ContentLineA, ContentLineB, ContentLineWide, SentinelLine, MalformedLine,
     BlankLine, TruncatedLine}

\* The lines of the bodies that are about what a frame holds: a frame with
\* content, with empty content and with none, a line that is no data
\* line, and an empty line.
\* The one line of a short reply.
ShortLineKinds == {ContentLineA}

FrameLineKinds ==
    {ContentLineA, EmptyDeltaLine, NoContentLine, CommentLine, BlankLine}

\* The lines joined, each followed by a line feed, but for the last one
\* when the service closes the connection without it.
RECURSIVE JoinLines(_, _)
JoinLines(lines, terminated) ==
    IF lines = <<>> THEN <<>>
    ELSE IF Len(lines) = 1
    THEN Head(lines) \o (IF terminated THEN <<LF>> ELSE <<>>)
    ELSE Head(lines) \o <<LF>> \o JoinLines(Tail(lines), terminated)

\* A fetch Response: with a body stream, or without one.
StreamResponse == [t |-> "Response", hasBody |-> TRUE]
BodilessResponse == [t |-> "Response", hasBody |-> FALSE]

\* A Response with status 200 whose body is no event stream but the API's
\* error document {"code": 102, "message": "..."}, on one line.
ErrorFormatResponse == [t |-> "Response", hasBody |-> TRUE, errorFormat |-> TRUE]
ErrorFormatBody == <<"{code:102,", "message:m}">>

\* What the service of this behaviour replies with: "wired" for the event
\* streams of LineKinds, "frames" for those of FrameLineKinds, "short" for
\* those of ShortLineKinds, "any" for a request that may resolve with a value
\* of any shape.
VARIABLE replyShapes

\* The lines of the bodies of this behaviour.
BodyLines ==
    IF replyShapes = "frames" THEN FrameLineKinds
    ELSE IF replyShapes = "short" THEN ShortLineKinds
    ELSE LineKinds

\* The ways the service may go on from the unterminated line rest: the tails
\* that complete the line, and what it may send of them.
IsPrefix(s, t) == Len(s) <= Len(t) /\ SubSeq(t, 1, Len(s)) = s

LineTails(rest) ==
    { SubSeq(l, Len(rest) + 1, Len(l)) : l \in {k \in BodyLines : IsPrefix(rest, k)} }

\* What the service may send after the line rest with feeds line feeds to go.
RECURSIVE Continuations(_, _)
Continuations(rest, feeds) ==
    IF feeds = 0 THEN {<<>>}
    ELSE UNION { { SubSeq(t, 1, j) : j \in 0..Len(t) } : t \in LineTails(rest) }
         \cup { t \o <<LF>> \o c :
                  t \in LineTails(rest), c \in Continuations(<<>>, feeds - 1) }

\* A completion document {"choices": choices}.
Completion(choices) == Obj([choices |-> choices])
Choice(message) == Obj([message |-> message])
Message(content) == Obj([content |-> content])

\* Documents: completions, well formed or not, and the API's error format.
Documents ==
    { Completion(Arr(<<Choice(Message(Str(s)))>> \o more)) :
        s \in {<<>>, <<"a">>, <<"a", "b">>, <<"E282AC">>},
        more \in {<<>>, <<Choice(Message(Str(<<"b">>)))>>} }
    \cup { Obj(<<>>), Completion(Str(<<"a">>)), Completion(Arr(<<>>)),
           Completion(Arr(<<Null>>)), Completion(Arr(<<Obj(<<>>)>>)),
           Completion(Arr(<<Choice(Message(Undefined))>>)),
           Completion(Arr(<<Choice(Obj(<<>>))>>)),
           Null,
           Obj([code |-> Num(0), data |-> Str(<<"a">>)]),
           Obj([code |-> Num(102), message |-> Str(<<"a">>)]) }

\* fetchWithAuth on the completions endpoint with stream: true in the
\* request body returns the Response itself.
WiredReplies == {StreamResponse, BodilessResponse, ErrorFormatResponse}

Replies(shapes) ==
    IF shapes = "any" THEN WiredReplies \cup Documents ELSE WiredReplies

-----------------------------------------------------------------------------
(* State.                                                                   *)

VARIABLES
    opened,             \* onOpen has run
    closed,             \* onClose has run
    inputValue,         \* the text in the input box
    isTestMode, chatAssistant, chatSession,
    messages, nextId,
    inputDisabled, loadingShown,
    saveTimers,         \* auto-save timers set and not yet fired
    sendPc,             \* where sendMessage is: idle, mockDelay, fetching, streaming
    waitingMessageId, responseMessageId, fullAnswer,
    response,           \* what fetchWithAuth resolved with
    received,           \* the bytes of the body read so far
    pending,            \* the decoder's incomplete sequence
    splitChar,          \* a read of this run ended inside a character
    buffer, fullContent,
    calls,              \* the callback's invocations in this run of processStream
    outcome,            \* of the last run: none, running, returned, rejected
    result,             \* what the last run returned
    markdown,           \* the document formatConversationAsMarkdown returned
    autoSave,           \* settings.autoSave
    isSaving,
    saves,              \* the calls of saveConversationToNote under way
    vault,              \* the notes of the save folder, by title
    failedSaves,        \* the notices of a save that failed
    chatAssistants,     \* the assistants of the selector
    changing            \* the assistant a changeAssistant under way switches to

modalVars ==
    <<opened, closed, inputValue, isTestMode, chatAssistant, chatSession,
      messages, nextId, inputDisabled, loadingShown, saveTimers, sendPc,
      waitingMessageId, responseMessageId, fullAnswer>>

streamVars ==
    <<response, received, pending, splitChar, buffer, fullContent, calls, outcome, result>>

saveVars == <<markdown, autoSave, isSaving, saves, vault, failedSaves>>

noteVars == <<saveVars, chatAssistants, changing>>

vars == <<replyShapes, modalVars, streamVars, noteVars>>

MockAssistantId == "mock-assistant-id"
RealAssistantId == "assistant-1"
\* The assistants listChatAssistants returns.
Assistants == {RealAssistantId, "assistant-2"}
UserMessages == {<<"q">>}

\* The title of the note of a conversation: the first 50 characters of its
\* first user message with the characters no file name takes replaced, or,
\* without a user message, a title with the date.
TitleLength == 50
Forbidden == {"\\", "/", ":", "*", "?", "\"", "<", ">", "|"}
Sanitize(s) == [i \in 1..Len(s) |-> IF s[i] \in Forbidden THEN "_" ELSE s[i]]
Substring(s, n) == SubSeq(s, 1, IF Len(s) < n THEN Len(s) ELSE n)
DatedTitle == <<"RAGFlow Conversation", "date">>

NoteTitle(msgs) ==
    LET users == SelectSeq(msgs, LAMBDA m : m.role = "user")
    IN  IF users # <<>> THEN Sanitize(Substring(users[1].content, TitleLength))
        ELSE DatedTitle

\* The notes the conversations of this model are saved to, none of them
\* there at the start.
NoteTitles == {Sanitize(Substring(Trim(m), TitleLength)) : m \in UserMessages}
              \cup {DatedTitle}
Absent == [t |-> "absent"]

\* The modal as constructed, with the service of shapes and the auto-save
\* setting one of autoSaves.
InitModal(shapes, autoSaves) ==
    /\ replyShapes = shapes
    /\ markdown = <<>>
    /\ autoSave \in autoSaves
    /\ isSaving = FALSE
    /\ saves = <<>>
    /\ vault = [title \in NoteTitles |-> Absent]
    /\ failedSaves = 0
    /\ chatAssistants = {}
    /\ changing = "none"
    /\ opened = FALSE
    /\ closed = FALSE
    /\ inputValue = <<>>
    /\ isTestMode = FALSE
    /\ chatAssistant = "null"
    /\ chatSession = "null"
    /\ messages = <<>>
    /\ nextId = 1
    /\ inputDisabled = FALSE
    /\ loadingShown = FALSE
    /\ saveTimers = 0
    /\ sendPc = "idle"
    /\ waitingMessageId = 0
    /\ responseMessageId = 0
    /\ fullAnswer = <<>>
    /\ response = Undefined
    /\ received = <<>>
    /\ pending = <<>>
    /\ splitChar = FALSE
    /\ buffer = <<>>
    /\ fullContent = <<>>
    /\ calls = <<>>
    /\ outcome = "none"
    /\ result = Undefined

\* DEFAULT_SETTINGS.autoSave.
DefaultAutoSave == TRUE

InitShaped(shapes) == InitModal(shapes, {DefaultAutoSave})

Init == InitShaped("wired")

-----------------------------------------------------------------------------
(* ConversationModal: opening and test mode.                                *)

WarningText == <<"warning">>
MockWelcomeText == <<"mock-welcome">>
WelcomeText == <<"welcome">>
MockReplyText == <<"mock-response">>
ErrorText(message) == <<ErrorMark, message>>

\* enterTestMode: the mock assistant and session stand in for missing ones,
\* and an empty conversation gets the warning and the mock welcome.
enterTestMode ==
    /\ isTestMode' = TRUE
    /\ chatAssistant' = IF chatAssistant = "null" THEN MockAssistantId
                        ELSE chatAssistant
    /\ chatSession' = IF chatSession = "null" THEN "mock-session-id"
                      ELSE chatSession

\* An initializeConversation that leaves test mode with the assistant
\* enterTestMode has made.
OnOpenKeepsAssistant(initialized) ==
    /\ ~opened
    /\ opened' = TRUE
    /\ IF initialized
       THEN /\ isTestMode' = FALSE
            /\ chatAssistant' = MockAssistantId
            /\ chatSession' = ""
            /\ messages' = addMessage(<<>>, nextId + 2, "assistant",
                                      WelcomeText, FALSE)
            /\ nextId' = nextId + 3
            /\ chatAssistants' = Assistants
       ELSE /\ isTestMode' = TRUE
            /\ chatAssistant' = MockAssistantId
            /\ chatSession' = "mock-session-id"
            /\ messages' = addMessage(
                               addMessage(<<>>, nextId, "assistant",
                                          WarningText, FALSE),
                               nextId + 1, "assistant", MockWelcomeText, FALSE)
            /\ nextId' = nextId + 2
            /\ UNCHANGED chatAssistants
    /\ inputDisabled' = FALSE
    /\ loadingShown' = FALSE
    /\ UNCHANGED <<replyShapes, saveVars, changing, closed, inputValue,
                   saveTimers, sendPc, waitingMessageId, responseMessageId,
                   fullAnswer, streamVars>>

\* onOpen: test mode first, then initializeConversation, which on success
\* leaves test mode, starts the list again with the welcome message and
\* loads the assistants of the selector.
OnOpen(initialized) ==
    /\ ~opened
    /\ opened' = TRUE
    /\ IF initialized
       THEN /\ isTestMode' = FALSE
            /\ chatAssistant' = RealAssistantId
            /\ chatSession' = ""
            /\ messages' = addMessage(<<>>, nextId + 2, "assistant",
                                      WelcomeText, FALSE)
            /\ nextId' = nextId + 3
            /\ chatAssistants' = Assistants
       ELSE /\ isTestMode' = TRUE
            /\ chatAssistant' = MockAssistantId
            /\ chatSession' = "mock-session-id"
            /\ messages' = addMessage(
                               addMessage(<<>>, nextId, "assistant",
                                          WarningText, FALSE),
                               nextId + 1, "assistant", MockWelcomeText, FALSE)
            /\ nextId' = nextId + 2
            /\ UNCHANGED chatAssistants
    /\ inputDisabled' = FALSE
    /\ loadingShown' = FALSE
    /\ UNCHANGED <<replyShapes, saveVars, changing, closed, inputValue,
                   saveTimers, sendPc, waitingMessageId, responseMessageId,
                   fullAnswer, streamVars>>

\* onClose empties the modal's content element: no field of the modal and
\* nothing of a send under way is touched.
OnClose ==
    /\ opened /\ ~closed
    /\ closed' = TRUE
    /\ UNCHANGED <<replyShapes, noteVars, opened, inputValue, isTestMode, chatAssistant,
                   chatSession, messages, nextId, inputDisabled, loadingShown,
                   saveTimers, sendPc, waitingMessageId, responseMessageId,
                   fullAnswer, streamVars>>

-----------------------------------------------------------------------------
(* ConversationModal.sendMessage.                                           *)

\* The end of a send that did not throw: the auto-save timer is set when
\* the setting is on, and the finally block gives the input back.
Completed ==
    /\ saveTimers' = IF autoSave THEN saveTimers + 1 ELSE saveTimers
    /\ loadingShown' = FALSE
    /\ inputDisabled' = FALSE
    /\ sendPc' = "idle"

\* A catch block that leaves the conversation without an error message.
FailedWithoutMessage(msgs, message) ==
    /\ enterTestMode
    /\ messages' = msgs
    /\ loadingShown' = FALSE
    /\ inputDisabled' = FALSE
    /\ sendPc' = "idle"
    /\ UNCHANGED <<nextId, saveTimers>>

\* enterTestMode without the look at the length of the list.
TestModeMessagesAlways(msgs, id) ==
    addMessage(addMessage(msgs, id, "assistant", WarningText, FALSE),
               id + 1, "assistant", MockWelcomeText, FALSE)

\* The messages enterTestMode adds to an empty conversation.
TestModeMessages(msgs, id) ==
    IF msgs = <<>>
    THEN addMessage(addMessage(msgs, id, "assistant", WarningText, FALSE),
                    id + 1, "assistant", MockWelcomeText, FALSE)
    ELSE msgs

\* The catch block of a send: test mode is entered if the modal is not in
\* it, an error message is added after the messages msgs of the send so far,
\* and the finally block gives the input back.
Failed(msgs, message) ==
    LET entered == IF isTestMode THEN msgs ELSE TestModeMessages(msgs, nextId)
        used == Len(entered) - Len(msgs)
    IN
    /\ enterTestMode
    /\ messages' = addMessage(entered, nextId + used, "assistant",
                              ErrorText(message), FALSE)
    /\ nextId' = nextId + used + 1
    /\ loadingShown' = FALSE
    /\ inputDisabled' = FALSE
    /\ sendPc' = "idle"
    /\ UNCHANGED saveTimers

\* The user asks one question of the service, and goes on asking in test
\* mode, while the messages of a send, an error message among them, fit into
\* the conversation.
MayAsk ==
    /\ Len(messages) + (IF isTestMode THEN 2 ELSE 4) <= MaxMessages
    /\ isTestMode \/ \A i \in 1..Len(messages) : messages[i].role # "user"

\* The user types into the input box, which takes no text while disabled.
TypeMessage(text) ==
    /\ opened /\ ~closed
    /\ ~inputDisabled
    /\ inputValue = <<>>
    /\ MayAsk
    /\ inputValue' = text
    /\ UNCHANGED <<replyShapes, noteVars, opened, closed, isTestMode, chatAssistant,
                   chatSession, messages, nextId, inputDisabled, loadingShown,
                   saveTimers, sendPc, waitingMessageId, responseMessageId,
                   fullAnswer, streamVars>>

\* sendMessage without lines 338-339: the input keeps its text and stays
\* enabled while the send is under way.
SendMessageInputLeftEnabled ==
    /\ opened /\ ~closed
    /\ IF Trim(inputValue) = <<>> \/ chatAssistant = "null"
          \/ chatSession = "null"
       THEN UNCHANGED vars
       ELSE
        /\ UNCHANGED <<inputValue, inputDisabled>>
        /\ loadingShown' = TRUE
        /\ IF isTestMode
           THEN /\ messages' = addMessage(messages, nextId, "user",
                                          Trim(inputValue), FALSE)
                /\ nextId' = nextId + 1
                /\ sendPc' = "mockDelay"
                /\ UNCHANGED <<waitingMessageId, responseMessageId, fullAnswer>>
           ELSE /\ messages' =
                    addMessage(
                        addMessage(
                            addMessage(messages, nextId, "user",
                                       Trim(inputValue), FALSE),
                            nextId + 1, "assistant", WaitingText, TRUE),
                        nextId + 2, "assistant", <<>>, FALSE)
                /\ nextId' = nextId + 3
                /\ waitingMessageId' = nextId + 1
                /\ responseMessageId' = nextId + 2
                /\ fullAnswer' = <<>>
                /\ sendPc' = "fetching"
        /\ response' = Undefined
        /\ received' = <<>>
        /\ pending' = <<>>
        /\ splitChar' = FALSE
        /\ buffer' = <<>>
        /\ fullContent' = <<>>
        /\ calls' = <<>>
        /\ outcome' = "none"
        /\ result' = Undefined
        /\ UNCHANGED <<replyShapes, noteVars, opened, closed, isTestMode, chatAssistant,
                       chatSession, saveTimers>>

\* sendMessage, on the Send button or the Enter key, up to its first await.
\* An empty message, or a missing assistant or session, returns at once.
\* Otherwise the input is cleared and disabled and the user's message added;
\* in test mode the mock reply is awaited, and otherwise the waiting message
\* and the empty reply message are added and the request is made, and
\* processStream of the send before is no more.
SendMessage ==
    /\ opened /\ ~closed
    /\ IF Trim(inputValue) = <<>> \/ chatAssistant = "null"
          \/ chatSession = "null"
       THEN UNCHANGED vars
       ELSE
        /\ inputValue' = <<>>
        /\ inputDisabled' = TRUE
        /\ loadingShown' = TRUE
        /\ IF isTestMode
           THEN /\ messages' = addMessage(messages, nextId, "user",
                                          Trim(inputValue), FALSE)
                /\ nextId' = nextId + 1
                /\ sendPc' = "mockDelay"
                /\ UNCHANGED <<waitingMessageId, responseMessageId, fullAnswer>>
           ELSE /\ messages' =
                    addMessage(
                        addMessage(
                            addMessage(messages, nextId, "user",
                                       Trim(inputValue), FALSE),
                            nextId + 1, "assistant", WaitingText, TRUE),
                        nextId + 2, "assistant", <<>>, FALSE)
                /\ nextId' = nextId + 3
                /\ waitingMessageId' = nextId + 1
                /\ responseMessageId' = nextId + 2
                /\ fullAnswer' = <<>>
                /\ sendPc' = "fetching"
        /\ response' = Undefined
        /\ received' = <<>>
        /\ pending' = <<>>
        /\ splitChar' = FALSE
        /\ buffer' = <<>>
        /\ fullContent' = <<>>
        /\ calls' = <<>>
        /\ outcome' = "none"
        /\ result' = Undefined
        /\ UNCHANGED <<replyShapes, noteVars, opened, closed, isTestMode, chatAssistant,
                       chatSession, saveTimers>>

\* After the delay the request is made to the service all the same.
MockReplyFromService ==
    /\ sendPc = "mockDelay"
    /\ sendPc' = "fetching"
    /\ UNCHANGED <<replyShapes, noteVars, opened, closed, inputValue, isTestMode,
                   chatAssistant, chatSession, messages, nextId, inputDisabled,
                   loadingShown, saveTimers, waitingMessageId,
                   responseMessageId, fullAnswer, streamVars>>

\* Test mode: after the delay the mock reply is added.
MockReply ==
    /\ sendPc = "mockDelay"
    /\ messages' = addMessage(messages, nextId, "assistant", MockReplyText, FALSE)
    /\ nextId' = nextId + 1
    /\ Completed
    /\ UNCHANGED <<replyShapes, noteVars, opened, closed, inputValue, isTestMode, chatAssistant,
                   chatSession, waitingMessageId, responseMessageId,
                   fullAnswer, streamVars>>

\* fetchWithAuth throws (the request fails, or the status is not OK) and
\* sendOpenAICompatibleMessage throws it on.
FetchFails(reason) ==
    /\ sendPc = "fetching"
    /\ Failed(messages, reason)
    /\ UNCHANGED <<replyShapes, noteVars, opened, closed, inputValue, waitingMessageId,
                   responseMessageId, fullAnswer, streamVars>>

-----------------------------------------------------------------------------
(* sendOpenAICompatibleMessage and processStreamingResponse.                *)

\* response.code !== 0
NotZero(v) == ~(v.t = "num" /\ v.v = 0)

\* The checks of the response before the closure is returned: "" when it
\* passes, and the error thrown otherwise.
ResponseError(r) ==
    IF ~Truthy(r) THEN "Empty response"
    ELSE IF Truthy(Get(r, "code")) /\ NotZero(Get(r, "code"))
            /\ Truthy(Get(r, "message"))
    THEN "API error"
    ELSE ""

\* response instanceof Response && received instanceof ReadableStream
IsStreaming(r) == r.t = "Response" /\ r.hasBody

\* The branch with the answer taken from the last choice.
NonStreamingLastChoice(r) ==
    LET choices == Get(r, "choices")
        lastChoice == IF IsArray(choices) /\ Length(choices) > 0
                      THEN choices.e[Len(choices.e)] ELSE Undefined
        message == Get(lastChoice, "message")
    IN
    IF ~Truthy(choices) \/ ~IsArray(choices) \/ Length(choices) = 0
    THEN [error |-> "missing choices", answer |-> <<>>]
    ELSE IF Throws(lastChoice)
    THEN [error |-> "TypeError", answer |-> <<>>]
    ELSE IF ~Truthy(message) \/ ~Truthy(Get(message, "content"))
    THEN [error |-> "missing message content", answer |-> <<>>]
    ELSE [error |-> "", answer |-> ToText(Get(message, "content"))]

\* The branch for a response that is no stream: [error, answer].
NonStreaming(r) ==
    LET choices == Get(r, "choices")
        firstChoice == First(choices)
        message == Get(firstChoice, "message")
    IN
    IF ~Truthy(choices) \/ ~IsArray(choices) \/ Length(choices) = 0
    THEN [error |-> "missing choices", answer |-> <<>>]
    ELSE IF Throws(firstChoice)
    THEN [error |-> "TypeError", answer |-> <<>>]
    ELSE IF ~Truthy(message) \/ ~Truthy(Get(message, "content"))
    THEN [error |-> "missing message content", answer |-> <<>>]
    ELSE [error |-> "", answer |-> ToText(Get(message, "content"))]

\* The state of a run of processStream as the callback sees it.
Run == [fullContent |-> fullContent, calls |-> calls,
        fullAnswer |-> fullAnswer, messages |-> messages]

\* A catch that throws the error on without a word to the callback.
RejectedUntold(run, message) == run

\* The catch of processStream: the callback is told, and the error thrown on.
Rejected(run, message) ==
    Callback(run, <<"Error", message>>, TRUE, responseMessageId)

\* What processStream returns.
Returned(text) == [fullContent |-> text, sessionId |-> <<>>, reference |-> <<>>]

\* After processStream has returned, sendMessage removes the waiting
\* message and completes.
AfterStream(run) ==
    /\ messages' = removeMessage(run.messages, waitingMessageId)
    /\ fullAnswer' = run.fullAnswer
    /\ Completed
    /\ UNCHANGED <<isTestMode, chatAssistant, chatSession, nextId>>

\* After processStream has thrown, the catch block of sendMessage runs.
AfterThrow(run, message) ==
    /\ fullAnswer' = run.fullAnswer
    /\ Failed(run.messages, message)

\* The request resolves with r.  A failed check throws; a stream gets its
\* reader; anything else goes through the non-streaming branch at once.
FetchResolves(r) ==
    /\ sendPc = "fetching"
    /\ response' = r
    /\ received' = <<>>
    /\ pending' = <<>>
    /\ splitChar' = FALSE
    /\ buffer' = <<>>
    /\ fullContent' = <<>>
    /\ IF ResponseError(r) # ""
       THEN /\ Failed(messages, ResponseError(r))
            /\ UNCHANGED <<fullAnswer, calls, outcome, result>>
       ELSE IF IsStreaming(r)
       THEN /\ sendPc' = "streaming"
            /\ calls' = <<>>
            /\ outcome' = "running"
            /\ result' = Undefined
            /\ UNCHANGED <<isTestMode, chatAssistant, chatSession, messages,
                           nextId, inputDisabled, loadingShown, saveTimers,
                           fullAnswer>>
       ELSE LET n == NonStreaming(r)
                start == [Run EXCEPT !.calls = <<>>, !.fullContent = <<>>]
            IN IF n.error = ""
               THEN LET run == Callback(start, n.answer, TRUE, responseMessageId)
                    IN /\ calls' = run.calls
                       /\ outcome' = "returned"
                       /\ result' = Returned(n.answer)
                       /\ AfterStream(run)
               ELSE LET run == Rejected(start, n.error)
                    IN /\ calls' = run.calls
                       /\ outcome' = "rejected"
                       /\ result' = Undefined
                       /\ AfterThrow(run, n.error)
    /\ UNCHANGED <<replyShapes, noteVars, opened, closed, inputValue, waitingMessageId,
                   responseMessageId>>

\* The chunks the next read may bring: the body is at most MaxLines lines,
\* cut anywhere, and the service may stop anywhere; the error document comes
\* in one piece or in two.
NextChunks ==
    IF response = ErrorFormatResponse
    THEN { SubSeq(ErrorFormatBody, Len(received) + 1, j) :
             j \in (Len(received) + 1)..Len(ErrorFormatBody) }
    ELSE LET segments == SplitLines(received)
         IN Continuations(segments[Len(segments)],
                          MaxLines - (Len(segments) - 1))
            \ {<<>>}

\* A read brings a chunk: it is decoded onto the buffer, whose complete
\* lines are processed and whose last segment is kept.
Read(value) ==
    /\ sendPc = "streaming"
    /\ \E chunk \in {decode(value, pending)} :
       \E lines \in {SplitLines(buffer \o chunk.text)} :
       \E run \in {ProcessLines(CompleteLines(lines), Run,
                                responseMessageId)} :
          /\ received' = received \o value
          /\ pending' = chunk.pending
          /\ splitChar' = (splitChar \/ chunk.pending # <<>>)
          /\ buffer' = Carry(lines)
          /\ fullContent' = run.fullContent
          /\ calls' = run.calls
          /\ fullAnswer' = run.fullAnswer
          /\ messages' = run.messages
    /\ UNCHANGED <<replyShapes, noteVars, opened, closed, inputValue, isTestMode, chatAssistant,
                   chatSession, nextId, inputDisabled, loadingShown, saveTimers,
                   sendPc, waitingMessageId, responseMessageId,
                   response, outcome, result>>

\* The stream is done: what is left in the buffer is processed, the callback
\* gets its final call, and processStream returns.
ReadDone ==
    /\ sendPc = "streaming"
    /\ \E run \in {Callback(IF Trim(buffer) # <<>>
                            THEN ProcessRest(SplitLines(buffer), Run,
                                             responseMessageId)
                            ELSE Run,
                            <<>>, TRUE, responseMessageId)} :
          /\ fullContent' = run.fullContent
          /\ calls' = run.calls
          /\ outcome' = "returned"
          /\ result' = Returned(run.fullContent)
          /\ AfterStream(run)
    /\ UNCHANGED <<replyShapes, noteVars, opened, closed, inputValue, waitingMessageId,
                   responseMessageId, response, received, pending, splitChar,
                   buffer>>

\* A read fails: processStream tells the callback and throws.
ReadError ==
    /\ sendPc = "streaming"
    /\ \E run \in {Rejected(Run, "read failed")} :
          /\ calls' = run.calls
          /\ outcome' = "rejected"
          /\ AfterThrow(run, "read failed")
    /\ UNCHANGED <<replyShapes, noteVars, opened, closed, inputValue, waitingMessageId,
                   responseMessageId, response, received, pending, splitChar,
                   buffer,
                   fullContent, result>>

-----------------------------------------------------------------------------

Next ==
    \/ \E initialized \in BOOLEAN : OnOpen(initialized)
    \/ OnClose
    \/ \E text \in UserMessages : TypeMessage(text)
    \/ SendMessage
    \/ MockReply
    \/ \E reason \in {"request failed", "status not OK"} : FetchFails(reason)
    \/ sendPc = "fetching" /\ \E r \in Replies(replyShapes) : FetchResolves(r)
    \/ sendPc = "streaming" /\ \E value \in NextChunks : Read(value)
    \/ ReadDone
    \/ ReadError

Spec == Init /\ [][Next]_vars

\* The same program with the request resolving with a value of any shape.
SpecAnyReply == InitShaped("any") /\ [][Next]_vars

\* The same program with the service sending the lines of FrameLineKinds.
SpecFrames == InitShaped("frames") /\ [][Next]_vars

-----------------------------------------------------------------------------
(* Properties of the decoder.                                               *)

\* The texts of the calls that are not final, in the order of the calls.
Chunks(cs) ==
    LET nonFinal == SelectSeq(cs, LAMBDA c : ~c.done)
    IN [i \in 1..Len(nonFinal) |-> nonFinal[i].chunk]

RECURSIVE Flatten(_)
Flatten(seqs) == IF seqs = <<>> THEN <<>> ELSE Head(seqs) \o Flatten(Tail(seqs))

\* A run of processStream on a stream has ended by returning.
StreamReturned == outcome = "returned" /\ IsStreaming(response)

\* The run of processStream on a body that arrives in one read, which the
\* end of the stream follows.
OneRead(body) ==
    LET start == [fullContent |-> <<>>, calls |-> <<>>, fullAnswer |-> <<>>,
                  messages |-> <<>>]
        lines == SplitLines(decode(body, <<>>).text)
        read == ProcessLines(CompleteLines(lines), start, 0)
    IN Callback(IF Trim(Carry(lines)) # <<>>
                THEN ProcessRest(SplitLines(Carry(lines)), read, 0)
                ELSE read,
                <<>>, TRUE, 0)

\* C1: however the reads cut the body, inside a line or inside a character,
\* processStream returns the fullContent, and delivers the concatenation of
\* delta texts, of the run that gets the same bytes in one read.
C1_SplitInvariance ==
    StreamReturned =>
        \A one \in {OneRead(received)} :
            /\ result.fullContent = one.fullContent
            /\ Flatten(Chunks(calls)) = Flatten(Chunks(one.calls))

\* A run has returned the wide character after a read ended inside it, a
\* delta before it.
C1_Witness ==
    /\ StreamReturned
    /\ splitChar
    /\ result.fullContent = <<"a", "E282AC">>

\* C2: a run of processStream that has ended, by returning or by throwing,
\* has called the callback with done = true once, in its last call; a run
\* that has not ended has not.
C2_OneFinalCallback ==
    /\ outcome = "running" => \A i \in 1..Len(calls) : ~calls[i].done
    /\ outcome \in {"returned", "rejected"} =>
          /\ Len(calls) >= 1
          /\ calls[Len(calls)].done
          /\ \A i \in 1..(Len(calls) - 1) : ~calls[i].done

\* A run has thrown after two deltas.
C2_Witness ==
    /\ outcome = "rejected"
    /\ Len(calls) = 3
    /\ ~calls[1].done /\ ~calls[2].done /\ calls[3].done

\* The delta a line of text carries: the content of a well-formed frame on
\* a data line, and nothing for any other line.
FrameTexts(line) ==
    IF line = <<"da", "ta:", "SP", "{c", "a", "c}">> THEN << <<"a">> >>
    ELSE IF line \in {<<"da", "ta:", "{c", "b", "c}", "CR">>,
                       <<"da", "ta:", "{c", "b", "c}">>} THEN << <<"b">> >>
    ELSE IF line = <<"da", "ta:", "SP", "{c", "E282AC", "c}">> THEN << <<"E282AC">> >>
    ELSE <<>>

\* The deltas of lines of text, in the order of the lines.
RECURSIVE ExpectedChunks(_)
ExpectedChunks(lines) ==
    IF lines = <<>> THEN <<>>
    ELSE FrameTexts(Head(lines)) \o ExpectedChunks(Tail(lines))

\* The text of bytes, and its segments between line feeds.
TextOf(bytes) == DecodeFrom(bytes, <<>>, <<>>).text
TextLines(bytes) == SplitLines(TextOf(bytes))

\* The body has a data line whose payload is no valid JSON.
HasMalformedLine(body) ==
    \E lines \in {SplitLines(body)} :
        \E i \in 1..Len(lines) : lines[i] \in {MalformedLine, TruncatedLine}

\* C3: a run over a body with a data line that is no valid JSON delivers
\* the content of every valid line, before and after it, as deltas and in
\* fullContent, and a run on a stream is rejected only by a failed read.
C3_MalformedLineSkipped ==
    /\ (StreamReturned /\ HasMalformedLine(received)) =>
          \A expected \in {ExpectedChunks(TextLines(received))} :
              /\ Chunks(calls) = expected
              /\ result.fullContent = Flatten(expected)
    /\ (outcome = "rejected" /\ IsStreaming(response)) =>
          calls[Len(calls)].chunk = <<"Error", "read failed">>

\* A run has returned the content of the lines around a malformed line.
C3_Witness ==
    /\ StreamReturned
    /\ received = JoinLines(<<ContentLineA, MalformedLine, ContentLineWide>>, TRUE)
    /\ Chunks(calls) = << <<"a">>, <<"E282AC">> >>
    /\ result.fullContent = <<"a", "E282AC">>

\* The body without its sentinel lines: a terminated one goes with its line
\* feed, and an unterminated last one leaves the line before it terminated.
WithoutSentinel(body) ==
    LET segments == SplitLines(body)
        last == segments[Len(segments)]
    IN JoinLines(
           SelectSeq(CompleteLines(segments), LAMBDA l : l # SentinelLine)
           \o <<IF last = SentinelLine THEN <<>> ELSE last>>,
           FALSE)

HasSentinel(body) ==
    \E i \in 1..Len(SplitLines(body)) : SplitLines(body)[i] = SentinelLine

SentinelChars == {"[DO", "NE]"}

\* C4: no character of the sentinel is in a text handed to the callback or
\* in fullContent, and a run that has returned made the calls, and returned
\* the fullContent, of the run over the body without its sentinel lines.
C4_SentinelContributesNothing ==
    /\ \A i \in 1..Len(calls) : \A j \in 1..Len(calls[i].chunk) :
          calls[i].chunk[j] \notin SentinelChars
    /\ \A j \in 1..Len(fullContent) : fullContent[j] \notin SentinelChars
    /\ StreamReturned =>
          \A one \in {OneRead(WithoutSentinel(received))} :
              /\ calls = one.calls
              /\ result.fullContent = one.fullContent

\* A run has returned over a body whose unterminated last line is the
\* sentinel, a content line before it.
C4_Witness ==
    /\ StreamReturned
    /\ received = JoinLines(<<ContentLineA, SentinelLine>>, FALSE)
    /\ buffer = <<"da", "ta:", "SP", "[DO", "NE]">>
    /\ calls = <<[chunk |-> <<"a">>, done |-> FALSE],
                 [chunk |-> <<>>, done |-> TRUE]>>

\* C5: at every point of a run on a stream the deltas delivered so far are
\* the first of the deltas of the lines read, in the order of the lines, and
\* a run that has returned has delivered them all.
C5_DeltasInStreamOrder ==
    (IsStreaming(response) /\ outcome # "none") =>
        \A expected \in {ExpectedChunks(TextLines(received))} :
            /\ IsPrefix(Chunks(calls), expected)
            /\ outcome = "returned" => Chunks(calls) = expected

\* Three lines with three different contents have been delivered.
C5_Witness ==
    /\ StreamReturned
    /\ received = JoinLines(<<ContentLineA, ContentLineB, ContentLineWide>>, TRUE)
    /\ Chunks(calls) = << <<"a">>, <<"b">>, <<"E282AC">> >>

\* C6: a run on a stream that returns gives the concatenation of the deltas
\* it delivered as fullContent, no reference and an empty session id.
C6_ReturnValue ==
    StreamReturned =>
        /\ result.fullContent = Flatten(Chunks(calls))
        /\ result.reference = <<>>
        /\ result.sessionId = <<>>

\* Deltas "a" and "b" have given fullContent "ab".
C6_Witness ==
    /\ StreamReturned
    /\ Chunks(calls) = << <<"a">>, <<"b">> >>
    /\ result = [fullContent |-> <<"a", "b">>, sessionId |-> <<>>,
                 reference |-> <<>>]

\* C7: when the stream ends with an unterminated line in the buffer, the
\* deltas are those of the terminated lines, then the one the buffer's line
\* carries by the same rule, and the last call is the final one, with an
\* empty text.
C7_UnterminatedLastLine ==
    (StreamReturned /\ Trim(buffer) # <<>>) =>
        /\ Chunks(calls) =
              ExpectedChunks(CompleteLines(TextLines(received)))
              \o FrameTexts(buffer)
        /\ calls[Len(calls)] = [chunk |-> <<>>, done |-> TRUE]

\* The stream has ended with a content line in the buffer, which was
\* delivered after the delta of the terminated line.
C7_Witness ==
    /\ StreamReturned
    /\ buffer = <<"da", "ta:", "SP", "{c", "E282AC", "c}">>
    /\ calls = <<[chunk |-> <<"a">>, done |-> FALSE],
                 [chunk |-> <<"E282AC">>, done |-> FALSE],
                 [chunk |-> <<>>, done |-> TRUE]>>

\* C10: while the stream is read, the deltas delivered are those of the
\* lines terminated in the bytes read so far, and the buffer is the text of
\* the unterminated rest.
C10_OnlyCompleteLines ==
    outcome = "running" =>
        \A lines \in {TextLines(received)} :
            /\ Chunks(calls) = ExpectedChunks(CompleteLines(lines))
            /\ buffer = Carry(lines)

\* One delta has been delivered and the reads have stopped inside the next
\* line, inside its wide character.
C10_Witness ==
    /\ outcome = "running"
    /\ Len(calls) = 1
    /\ buffer = <<"da", "ta:", "SP", "{c">>
    /\ pending = <<"E2", "82">>

-----------------------------------------------------------------------------
(* Properties of the non-streaming branch.                                  *)

\* v is an object with the field.
Has(v, field) == v.t = "obj" /\ field \in DOMAIN v.f

\* The document has a first choice whose message has a non-empty content.
HasAnswer(r) ==
    /\ Has(r, "choices")
    /\ r.f.choices.t = "arr"
    /\ Len(r.f.choices.e) > 0
    /\ Has(r.f.choices.e[1], "message")
    /\ Has(r.f.choices.e[1].f.message, "content")
    /\ r.f.choices.e[1].f.message.f.content.t = "str"
    /\ r.f.choices.e[1].f.message.f.content.v # <<>>

AnswerOf(r) == r.f.choices.e[1].f.message.f.content.v

\* C8: for a response that is one document with a first choice that has
\* message content, the callback is called once, with done = true and that
\* content, and processStream returns the content as fullContent.
C8_NonStreamingAnswer ==
    HasAnswer(response) =>
        /\ outcome = "returned"
        /\ calls = <<[chunk |-> AnswerOf(response), done |-> TRUE]>>
        /\ result.fullContent = AnswerOf(response)

\* A document of two choices has been answered from the first.
C8_Witness ==
    /\ HasAnswer(response)
    /\ Len(response.f.choices.e) = 2
    /\ outcome = "returned"
    /\ result.fullContent = <<"a", "b">>
    /\ calls = <<[chunk |-> <<"a", "b">>, done |-> TRUE]>>

\* The response went through the non-streaming branch of processStream and
\* has no answer: no choices array that is not empty, or a first choice
\* without message content.
InvalidCompletion(r) ==
    /\ r.t \in {"obj", "Response"}
    /\ ~IsStreaming(r)
    /\ ~(Has(r, "code") /\ Has(r, "message"))
    /\ ~HasAnswer(r)

\* A message with the error marker.
IsErrorMessage(m) == m.content # <<>> /\ m.content[1] = ErrorMark

\* C9: for such a response processStream throws and returns nothing, the
\* send fails into test mode, and an error message comes after the reply
\* message of the send wherever that one is in the list.
C9_InvalidCompletionFails ==
    InvalidCompletion(response) =>
        /\ outcome = "rejected"
        /\ result = Undefined
        /\ isTestMode
        /\ \A i \in 1..Len(messages) :
              messages[i].id = responseMessageId =>
                  \E j \in (i + 1)..Len(messages) : IsErrorMessage(messages[j])

\* A completion whose first choice has no message has failed the send: the
\* empty reply message is in the list and the error message is the last.
C9_Witness ==
    /\ response = Completion(Arr(<<Choice(Message(Undefined))>>))
    /\ outcome = "rejected"
    /\ sendPc = "idle"
    /\ \E i \in 1..Len(messages) :
          messages[i].id = responseMessageId /\ messages[i].content = <<>>
    /\ IsErrorMessage(messages[Len(messages)])

-----------------------------------------------------------------------------
(* Properties of sendMessage.                                               *)

\* C11: when no send is under way the message list holds no message
\* flagged temporary.
C11_NoTemporaryAfterSend ==
    sendPc = "idle" => \A i \in 1..Len(messages) : ~messages[i].isTemporary

\* The last send failed: its error message is the last of the list.
LastSendFailed ==
    /\ sendPc = "idle"
    /\ messages # <<>>
    /\ IsErrorMessage(messages[Len(messages)])

\* C12: the send that follows a failed send makes a request to the service.
C12_NextSendIsTransmitted ==
    [][(LastSendFailed /\ sendPc' # "idle") => sendPc' = "fetching"]_vars

\* A step in which a live send ends by failing: the catch block of
\* sendMessage has run, which leaves the modal in test mode.
SendFails ==
    /\ sendPc \in {"fetching", "streaming"}
    /\ sendPc' = "idle"
    /\ isTestMode'

\* C13: a send that fails, by the request or by processStream, adds one
\* message to the list, an error message of the assistant, and leaves the
\* input box enabled and the loading indicator hidden.
C13_OneErrorMessage ==
    [][SendFails =>
          /\ Len(messages') = Len(messages) + 1
          /\ SubSeq(messages', 1, Len(messages)) = messages
          /\ IsErrorMessage(messages'[Len(messages')])
          /\ messages'[Len(messages')].role = "assistant"
          /\ ~inputDisabled'
          /\ ~loadingShown']_vars

\* processStream has failed after a delta, and the send has ended with one
\* error message, the last of the list.
C13_Witness ==
    /\ sendPc = "idle"
    /\ outcome = "rejected"
    /\ Len(calls) = 2
    /\ Len(messages) = 5
    /\ IsErrorMessage(messages[5])
    /\ \A i \in 1..4 : ~IsErrorMessage(messages[i])
    /\ ~inputDisabled /\ ~loadingShown

\* A step in which the request of a live send fails before the body is read.
RequestFails ==
    /\ sendPc = "fetching"
    /\ sendPc' = "idle"
    /\ isTestMode'

\* C14: after a request that failed before any byte of the response was
\* received, no reply message of that send is left in the list.
C14_NoReplyLeftBehind ==
    [][RequestFails =>
          \A i \in 1..Len(messages') : messages'[i].id # responseMessageId]_vars

\* The reply message a completed stream of the given text leaves behind.
CompleteReply(id, text) ==
    [content |-> text, id |-> id, role |-> "assistant", isTemporary |-> FALSE]

\* processStream has thrown after the callback was given some text.
RejectedMidStream ==
    /\ sendPc = "idle"
    /\ outcome = "rejected"
    /\ fullAnswer # <<>>

\* C15: after processStream has failed in the middle of a stream the reply
\* message still holds the text delivered so far and is marked as incomplete:
\* it is not the message a completed stream of the same text leaves.
C15_PartialReplyAnnotated ==
    RejectedMidStream =>
        \E i \in 1..Len(messages) :
            /\ messages[i].id = responseMessageId
            /\ IsPrefix(fullAnswer, messages[i].content)
            /\ messages[i] # CompleteReply(responseMessageId, fullAnswer)

\* The part of C15 the code keeps: the delivered text is retained as the
\* content of the reply message, and the error message comes after it.
PartialReplyRetained ==
    RejectedMidStream =>
        \E i \in 1..Len(messages) :
            /\ messages[i].id = responseMessageId
            /\ messages[i].content = fullAnswer
            /\ \E j \in (i + 1)..Len(messages) : IsErrorMessage(messages[j])

\* C16: once the callback of a send has been given its first text, the
\* waiting message is no longer in the list, and the reply message is.
C16_PlaceholderGoneAfterFirstDelta ==
    (sendPc = "streaming" /\ fullAnswer # <<>>) =>
        /\ \A i \in 1..Len(messages) : messages[i].id # waitingMessageId
        /\ \E i \in 1..Len(messages) : messages[i].id = responseMessageId

\* C17: once the modal is closed while a stream is being read, nothing more
\* is read from the response stream and the callback of the send is not
\* called again.
C17_CloseStopsReading ==
    [][(closed /\ sendPc = "streaming") =>
          (received' = received /\ calls' = calls)]_vars

\* C18: while a send is under way the input box is empty and disabled, and
\* a further trigger of sendMessage returns at once: it makes no request and
\* adds no message.
C18_OneSendAtATime ==
    [][sendPc # "idle" =>
          /\ inputValue = <<>>
          /\ inputDisabled
          /\ SendMessage => UNCHANGED vars]_vars

\* The Send button can be pressed while the stream of a send is being read.
C18_Witness ==
    /\ sendPc = "streaming"
    /\ opened /\ ~closed
    /\ fullAnswer # <<>>
    /\ inputDisabled
    /\ Trim(inputValue) = <<>>

\* The content of the reply message of the send in a message list.
ReplyContent(msgs) ==
    LET own == SelectSeq(msgs, LAMBDA m : m.id = responseMessageId)
    IN IF own = <<>> THEN <<>> ELSE own[1].content

\* The text of the deltas the callback is given in a step.
StepText ==
    Flatten(Chunks(SubSeq(calls', Len(calls) + 1, Len(calls'))))

-----------------------------------------------------------------------------
(* main.ts: formatConversationAsMarkdown.  A document is a sequence of     *)
(* characters like any text; a tag, a reference marker, a heading mark or  *)
(* a line of the header is one symbol.                                     *)

\* The longest conversation handed to the formatter, in messages.
MaxSaved == 3

ThinkOpen == "<think>"
ThinkClose == "</think>"
HtmlTags == {ThinkOpen, ThinkClose, "<b>"}
ReferenceMarkers == {"##0$$", "[1]", "(ref: 1)", "{ref: 1}", "##0", "$$"}
Punctuation == {".", "?"}
SectionMark == "###"
ReferencesMark == "**References:**"

\* content.replace(/<think>[\s\S]*?<\/think>/g, ''): from each opening tag
\* to the nearest closing tag after it.
RECURSIVE RemoveThinkBlocks(_)
RemoveThinkBlocks(s) ==
    IF s = <<>> THEN <<>>
    ELSE IF Head(s) = ThinkOpen /\ \E j \in 2..Len(s) : s[j] = ThinkClose
    THEN LET j == CHOOSE i \in 2..Len(s) :
                      /\ s[i] = ThinkClose
                      /\ \A k \in 2..(i - 1) : s[k] # ThinkClose
         IN RemoveThinkBlocks(SubSeq(s, j + 1, Len(s)))
    ELSE <<Head(s)>> \o RemoveThinkBlocks(Tail(s))

\* replace(/.../g, '') for a pattern that matches the symbols of a set.
Without(s, symbols) == SelectSeq(s, LAMBDA c : c \notin symbols)

\* content.replace(/\s+([.,;:!?])/g, '$1')
RECURSIVE RemoveSpaceBeforePunctuation(_)
RemoveSpaceBeforePunctuation(s) ==
    IF s = <<>> THEN <<>>
    ELSE IF /\ Head(s) \in WhiteSpace
            /\ TrimStart(s) # <<>>
            /\ Head(TrimStart(s)) \in Punctuation
    THEN RemoveSpaceBeforePunctuation(TrimStart(s))
    ELSE <<Head(s)>> \o RemoveSpaceBeforePunctuation(Tail(s))

\* line.replace(/\s{2,}/g, ' ')
RECURSIVE CollapseSpaces(_)
CollapseSpaces(s) ==
    IF s = <<>> THEN <<>>
    ELSE IF Head(s) \in WhiteSpace /\ Len(s) >= 2 /\ s[2] \in WhiteSpace
    THEN <<"SP">> \o CollapseSpaces(TrimStart(s))
    ELSE <<Head(s)>> \o CollapseSpaces(Tail(s))

\* lines.join('\n')
RECURSIVE JoinNewline(_)
JoinNewline(lines) ==
    IF Len(lines) = 1 THEN lines[1]
    ELSE lines[1] \o <<LF>> \o JoinNewline(Tail(lines))

\* content.split('\n').map(line => line.replace(/\s{2,}/g, ' ').trim()).join('\n')
CleanLines(s) ==
    LET lines == SplitLines(s)
    IN JoinNewline([i \in 1..Len(lines) |-> Trim(CollapseSpaces(lines[i]))])

RECURSIVE DropNewlines(_)
DropNewlines(s) ==
    IF s # <<>> /\ Head(s) = LF THEN DropNewlines(Tail(s)) ELSE s

\* content.replace(/\n{3,}/g, '\n\n')
RECURSIVE CollapseBlankLines(_)
CollapseBlankLines(s) ==
    IF s = <<>> THEN <<>>
    ELSE IF Len(s) >= 3 /\ s[1] = LF /\ s[2] = LF /\ s[3] = LF
    THEN <<LF, LF>> \o CollapseBlankLines(DropNewlines(s))
    ELSE <<Head(s)>> \o CollapseBlankLines(Tail(s))

\* The clean-up of a message's content, in the order of the code.
CleanContent(content) ==
    CollapseBlankLines(
        CleanLines(
            RemoveSpaceBeforePunctuation(
                Trim(Without(Without(RemoveThinkBlocks(content), HtmlTags),
                             ReferenceMarkers)))))

\* The four lines of the header, an empty line after each.
MarkdownHeader ==
    <<"# RAGFlow Conversation", LF, LF, "*Chat Assistant*", LF, LF,
      "*Date*", LF, LF, "---", LF, LF>>

RoleLabel(role) == IF role = "user" THEN "**You**" ELSE "**RAGFlow**"

\* One reference: the document's name, or 'Unknown document', and the
\* content without its tags (the references of the model are shorter than
\* the 200 characters kept).
FormatReference(ref) ==
    <<"-", "SP">>
    \o (IF ref.document_name = <<>> THEN <<"Unknown document">>
        ELSE ref.document_name)
    \o <<":", "SP">> \o Trim(Without(ref.content, HtmlTags)) \o <<LF>>

RECURSIVE FormatReferences(_)
FormatReferences(refs) ==
    IF refs = <<>> THEN <<>>
    ELSE FormatReference(Head(refs)) \o FormatReferences(Tail(refs))

\* message.reference, which a message need not have.
ReferenceOf(message) ==
    IF "reference" \in DOMAIN message THEN message.reference ELSE <<>>

\* The section of a message with the cleaned content.
Section(message, content) ==
    <<SectionMark, "SP", RoleLabel(message.role), LF, LF>> \o content \o <<LF, LF>>
    \o (IF ReferenceOf(message) # <<>>
        THEN <<ReferencesMark, LF, LF>> \o FormatReferences(ReferenceOf(message))
             \o <<LF>>
        ELSE <<>>)

\* The body of the forEach without its first line: a temporary message gets
\* a section like any other.
FormatMessageTemporaryToo(message) ==
    LET content == CleanContent(message.content)
    IN IF content = <<>> THEN <<>> ELSE Section(message, content)

\* The body of the forEach: what one message adds to the document.
FormatMessage(message) ==
    IF message.isTemporary THEN <<>>
    ELSE LET content == CleanContent(message.content)
         IN IF content = <<>> THEN <<>> ELSE Section(message, content)

RECURSIVE FormatMessages(_)
FormatMessages(msgs) ==
    IF msgs = <<>> THEN <<>>
    ELSE FormatMessage(Head(msgs)) \o FormatMessages(Tail(msgs))

formatConversationAsMarkdown(msgs) == MarkdownHeader \o FormatMessages(msgs)

\* The contents of the messages handed to the formatter.
SavedContents ==
    { <<>>,
      <<"a">>,
      <<ThinkOpen, "a", ThinkClose>>,
      <<ThinkOpen, "a", ThinkClose, "b">>,
      <<"[1]">>,
      <<"##0$$", "SP", "$$">>,
      <<"SP", LF>>,
      <<"a", "SP", "[1]", "SP", ".">>,
      <<"a", "SP", "SP", "b", "SP">>,
      <<"a", LF, LF, LF, "b">>,
      <<"<b>", "a", "SP", LF, "SP", "b">>,
      <<"a", ThinkClose, "(ref: 1)">> }

SavedReference == [document_name |-> <<"doc">>, content |-> <<"<b>", "r", "SP">>]

\* The messages of a conversation: of the assistant with each of the
\* contents, of the user, of the assistant with a reference, and the
\* temporary ones of the assistant.
SavedMessages ==
    [content : SavedContents, id : {0}, role : {"assistant"},
     isTemporary : {FALSE}]
    \cup [content : {<<"q">>, <<"SP", LF>>, <<"q", "SP", "?">>}, id : {0},
          role : {"user"}, isTemporary : {FALSE}]
    \cup [content : {WaitingText, <<>>}, id : {0}, role : {"assistant"},
          isTemporary : {TRUE}]
    \cup [content : {<<"a">>, <<"[1]">>, <<ThinkOpen, "a", ThinkClose, "b">>},
          id : {0}, role : {"assistant"}, isTemporary : {FALSE},
          reference : {<<SavedReference>>}]

\* A list of messages with the ids addMessage gives.
Numbered(list) == [i \in 1..Len(list) |-> [list[i] EXCEPT !.id = i]]

\* A conversation of up to MaxSaved messages is there to be saved.
InitFormat ==
    /\ replyShapes = "wired"
    /\ markdown = <<>>
    /\ autoSave = TRUE
    /\ isSaving = FALSE
    /\ saves = <<>>
    /\ vault = [title \in NoteTitles |-> Absent]
    /\ failedSaves = 0
    /\ chatAssistants = {}
    /\ changing = "none"
    /\ opened = TRUE
    /\ closed = FALSE
    /\ inputValue = <<>>
    /\ isTestMode = FALSE
    /\ chatAssistant = RealAssistantId
    /\ chatSession = ""
    /\ \E n \in 0..MaxSaved :
          \E list \in [1..n -> SavedMessages] :
              /\ messages = Numbered(list)
              /\ nextId = n + 1
    /\ inputDisabled = FALSE
    /\ loadingShown = FALSE
    /\ saveTimers = 0
    /\ sendPc = "idle"
    /\ waitingMessageId = 0
    /\ responseMessageId = 0
    /\ fullAnswer = <<>>
    /\ response = Undefined
    /\ received = <<>>
    /\ pending = <<>>
    /\ splitChar = FALSE
    /\ buffer = <<>>
    /\ fullContent = <<>>
    /\ calls = <<>>
    /\ outcome = "none"
    /\ result = Undefined

\* saveConversationToNote formats the conversation, unless it is empty.
FormatConversation ==
    /\ messages # <<>>
    /\ markdown = <<>>
    /\ markdown' = formatConversationAsMarkdown(messages)
    /\ UNCHANGED <<replyShapes, modalVars, streamVars, autoSave, isSaving,
                   saves, vault, failedSaves, chatAssistants, changing>>

NextFormat == FormatConversation

SpecFormat == InitFormat /\ [][NextFormat]_vars


-----------------------------------------------------------------------------
(* Properties of formatConversationAsMarkdown. *)

\* The places of the section headings of a document, in order.
Headings(doc) ==
    SelectSeq([i \in 1..Len(doc) |-> i], LAMBDA i : doc[i] = SectionMark)

\* The section of a document that starts at the k-th heading, up to the
\* next heading or the end.
SectionAt(doc, k) ==
    LET at == Headings(doc)
    IN SubSeq(doc, at[k],
              IF k < Len(at) THEN at[k + 1] - 1 ELSE Len(doc))

\* The messages that are not temporary and whose cleaned content is not
\* empty.
Kept(msgs) ==
    SelectSeq(msgs, LAMBDA m : ~m.isTemporary /\ CleanContent(m.content) # <<>>)

\* C20: the document has one section for each message that is not temporary
\* and whose cleaned content is not empty, in the order of the list, with
\* the label of the message's role and its cleaned content, and none else.
C20_SectionsOfKeptMessages ==
    markdown # <<>> =>
        \A kept \in {Kept(messages)} :
            /\ StartsWith(markdown, MarkdownHeader)
            /\ Len(Headings(markdown)) = Len(kept)
            /\ \A k \in 1..Len(kept) :
                  StartsWith(SectionAt(markdown, k),
                             <<SectionMark, "SP", RoleLabel(kept[k].role), LF, LF>>
                             \o CleanContent(kept[k].content) \o <<LF, LF>>)

\* A conversation of a temporary message, a message whose content is
\* cleaned away and a message that is kept has been formatted.
C20_Witness ==
    /\ markdown # <<>>
    /\ \E i, j, k \in 1..Len(messages) :
          /\ messages[i].isTemporary
          /\ messages[i].content # <<>>
          /\ ~messages[j].isTemporary
          /\ messages[j].content # <<>>
          /\ CleanContent(messages[j].content) = <<>>
          /\ ~messages[k].isTemporary
          /\ CleanContent(messages[k].content) # <<>>
          /\ CleanContent(messages[k].content) # messages[k].content
    /\ Len(Headings(markdown)) < Len(messages)


\* The message list is msgs followed by one message of the role with the
\* content.
Appended(msgs, role, content) ==
    /\ Len(messages') = Len(msgs) + 1
    /\ SubSeq(messages', 1, Len(msgs)) = msgs
    /\ messages'[Len(messages')].role = role
    /\ messages'[Len(messages')].content = content
    /\ ~messages'[Len(messages')].isTemporary

\* C22: in test mode no step makes a request to the service; a send adds
\* the user's message, then waits, then adds the one mock reply, and nothing
\* else is added meanwhile.
C22_TestModeSendsNothing ==
    [][isTestMode =>
          /\ sendPc' \in {"idle", "mockDelay"}
          /\ response' \in {response, Undefined}
          /\ Len(received') <= Len(received)
          /\ Len(calls') <= Len(calls)
          /\ (sendPc = "idle" /\ sendPc' = "mockDelay") =>
                Appended(messages, "user", Trim(inputValue))
          /\ (sendPc = "mockDelay" /\ sendPc' = "mockDelay") =>
                messages' = messages
          /\ (sendPc = "mockDelay" /\ sendPc' = "idle") =>
                Appended(messages, "assistant", MockReplyText)
          /\ (sendPc = "idle" /\ sendPc' = "idle") =>
                messages' = messages]_vars

\* A send in test mode has ended: the user's message and the mock reply are
\* the last two of the list.
C22_Witness ==
    /\ isTestMode
    /\ sendPc = "idle"
    /\ Len(messages) >= 2
    /\ messages[Len(messages) - 1].role = "user"
    /\ messages[Len(messages)].content = MockReplyText


ErrorFormatReply ==
    \/ response = ErrorFormatResponse
    \/ /\ response.t = "obj"
       /\ Truthy(Get(response, "code")) /\ NotZero(Get(response, "code"))
       /\ Truthy(Get(response, "message"))

\* C24: for a reply in the error format sendOpenAICompatibleMessage throws:
\* nothing is read, processStream is not run and the send has failed into
\* test mode.
C24_ErrorFormatThrows ==
    ErrorFormatReply =>
        /\ sendPc = "idle"
        /\ isTestMode
        /\ outcome = "none"
        /\ received = <<>>


\* A line of text is a data line whose payload is a frame with a content of
\* at least one character.
HasContent(line) ==
    /\ StartsWith(line, DataPrefix)
    /\ \E payload \in {Trim(RemoveDataPrefix(line))} :
          /\ Len(payload) >= 3
          /\ payload[1] = FrameOpen
          /\ payload[Len(payload)] = FrameClose
          /\ IsString(SubSeq(payload, 2, Len(payload) - 1))

\* The content of the frame of such a line.
ContentOf(line) ==
    LET payload == Trim(RemoveDataPrefix(line))
    IN SubSeq(payload, 2, Len(payload) - 1)

\* The lines processStream has looked at: the complete ones, and the
\* unterminated last one too once the stream has ended.
LinesSeen ==
    IF outcome = "returned" THEN TextLines(received)
    ELSE CompleteLines(TextLines(received))

IsSentinel(line) ==
    StartsWith(line, DataPrefix) /\ Trim(RemoveDataPrefix(line)) = DoneSentinel

\* The lines that come after the first sentinel line, none if there is none.
AfterSentinel(lines) ==
    IF \E i \in 1..Len(lines) : IsSentinel(lines[i])
    THEN LET first == CHOOSE i \in 1..Len(lines) :
                          /\ IsSentinel(lines[i])
                          /\ \A k \in 1..(i - 1) : ~IsSentinel(lines[k])
         IN SubSeq(lines, first + 1, Len(lines))
    ELSE <<>>

\* C26: the lines with content that have come after a sentinel line are
\* delivered like any other: their contents are the last of the deltas and
\* are at the end of fullContent; and as long as the stream has not ended
\* the callback has had no final call, sentinel or not.
C26_SentinelDoesNotEndDecoding ==
    IsStreaming(response) =>
        /\ outcome = "running" => \A i \in 1..Len(calls) : ~calls[i].done
        /\ \A late \in {SelectSeq(AfterSentinel(LinesSeen), HasContent)} :
           \A chunks \in {Chunks(calls)} :
              /\ Len(chunks) >= Len(late)
              /\ \A i \in 1..Len(late) :
                    chunks[Len(chunks) - Len(late) + i] = ContentOf(late[i])
              /\ \E before \in {Flatten(SubSeq(chunks, 1, Len(chunks) - Len(late)))} :
                    fullContent =
                        before \o Flatten([i \in 1..Len(late) |-> ContentOf(late[i])])

\* The stream is still read after a sentinel line and a line with content
\* after it, whose delta has been delivered.
C26_Witness ==
    /\ sendPc = "streaming"
    /\ outcome = "running"
    /\ \E lines \in {CompleteLines(TextLines(received))} :
          /\ Len(lines) = 2
          /\ IsSentinel(lines[1])
          /\ HasContent(lines[2])
    /\ Len(Chunks(calls)) = 1
    /\ fullContent # <<>>


\* C27: out of test mode the assistant of the modal is not the mock
\* assistant, and a request is under way only out of test mode and for the
\* real assistant.
C27_RequestsForRealAssistant ==
    /\ ~isTestMode => chatAssistant # MockAssistantId
    /\ sendPc \in {"fetching", "streaming"} =>
          /\ ~isTestMode
          /\ chatAssistant = RealAssistantId

\* A request is under way, for the real assistant.
C27_Witness ==
    /\ sendPc = "fetching"
    /\ ~isTestMode
    /\ chatAssistant = RealAssistantId

-----------------------------------------------------------------------------
(* Saving the conversation: ConversationModal.saveConversation and          *)
(* RAGFlowPlugin.saveConversationToNote.                                    *)

MaxSaves == 2
MaxIds == 8

\* A call of saveConversationToNote holds the array it was given: the
\* modal's own, until changeAssistant gives the modal a new one.
Attached == [attached |-> TRUE, msgs |-> <<>>]
Detached(msgs) == [attached |-> FALSE, msgs |-> msgs]
ListOf(save) == IF save.list.attached THEN messages ELSE save.list.msgs

\* The call as it waits for ensureFolderExists.
NewSave == [pc |-> "folder", list |-> Attached, title |-> <<>>,
            content |-> <<>>, existing |-> <<>>]

Remove(seq, i) == SubSeq(seq, 1, i - 1) \o SubSeq(seq, i + 1, Len(seq))

\* saveConversation without the look at isSaving.
saveConversationUnguarded ==
    IF messages = <<>>
    THEN UNCHANGED <<isSaving, saves>>
    ELSE /\ isSaving' = TRUE
         /\ saves' = Append(saves, NewSave)

\* saveConversation up to its await: nothing is done while a save is under
\* way or the conversation is empty.
saveConversation ==
    IF isSaving \/ messages = <<>>
    THEN UNCHANGED <<isSaving, saves>>
    ELSE /\ isSaving' = TRUE
         /\ saves' = Append(saves, NewSave)

\* The transcripts of a note, and the saves of the Save button so far.
Transcripts(text) ==
    IF text = Absent THEN 0
    ELSE Cardinality({i \in 1..Len(text) : text[i] = MarkdownHeader[1]})

Written ==
    LET titles == CHOOSE order \in [1..Cardinality(NoteTitles) -> NoteTitles] :
                      \A t \in NoteTitles : \E i \in DOMAIN order : order[i] = t
        Sum[i \in 0..Cardinality(NoteTitles)] ==
            IF i = 0 THEN 0 ELSE Sum[i - 1] + Transcripts(vault[titles[i]])
    IN Sum[Cardinality(NoteTitles)]

\* The timer sendMessage has set fires and calls saveConversation.
AutoSaveTimer ==
    /\ saveTimers > 0
    /\ saveTimers' = saveTimers - 1
    /\ saveConversation
    /\ UNCHANGED <<replyShapes, streamVars, markdown, autoSave, vault,
                   failedSaves, chatAssistants, changing, opened, closed,
                   inputValue, isTestMode, chatAssistant, chatSession,
                   messages, nextId, inputDisabled, loadingShown, sendPc,
                   waitingMessageId, responseMessageId, fullAnswer>>

\* The Save button, shown when auto-save was off as the modal opened and
\* disabled while a save is under way.
SaveButton ==
    /\ opened /\ ~closed
    /\ ~autoSave
    /\ ~isSaving
    /\ Written + failedSaves < MaxSaves
    /\ saveConversation
    /\ UNCHANGED <<replyShapes, modalVars, streamVars, markdown, autoSave,
                   vault, failedSaves, chatAssistants, changing>>

\* What vault.modify writes to a note that holds existing.
AppendedNoteOverwritten(existing, content) == content

AppendedNote(existing, content) == existing \o <<LF, LF>> \o content

\* ensureFolderExists has resolved: the title and the document are made of
\* the list as it is now, and the note is looked up.
FolderReady(i) ==
    /\ saves[i].pc = "folder"
    /\ \E list \in {ListOf(saves[i])} :
       \E title \in {NoteTitle(list)} :
       \E content \in {formatConversationAsMarkdown(list)} :
          /\ markdown' = content
          /\ saves' = [saves EXCEPT ![i] =
                          [@ EXCEPT !.pc = IF vault[title] = Absent
                                           THEN "create" ELSE "read",
                                    !.title = title,
                                    !.content = content]]
    /\ UNCHANGED <<replyShapes, modalVars, streamVars, autoSave, isSaving,
                   vault, failedSaves, chatAssistants, changing>>

\* vault.read has resolved with the note's content.
NoteRead(i) ==
    /\ saves[i].pc = "read"
    /\ saves' = [saves EXCEPT ![i] =
                    [@ EXCEPT !.pc = "modify",
                              !.existing = vault[saves[i].title]]]
    /\ UNCHANGED <<replyShapes, modalVars, streamVars, markdown, autoSave,
                   isSaving, vault, failedSaves, chatAssistants, changing>>

\* The finally block of saveConversation.
SaveEnds(i) ==
    /\ isSaving' = FALSE
    /\ saves' = Remove(saves, i)

\* vault.modify or vault.create has resolved: the note is written and the
\* save ends. vault.create rejects when the note is there.
NoteWritten(i) ==
    /\ \/ /\ saves[i].pc = "modify"
          /\ vault' = [vault EXCEPT ![saves[i].title] =
                          AppendedNote(saves[i].existing, saves[i].content)]
       \/ /\ saves[i].pc = "create"
          /\ vault[saves[i].title] = Absent
          /\ vault' = [vault EXCEPT ![saves[i].title] = saves[i].content]
    /\ SaveEnds(i)
    /\ UNCHANGED <<replyShapes, modalVars, streamVars, markdown, autoSave,
                   failedSaves, chatAssistants, changing>>

\* A vault operation of the save rejects: the catch block tells the user
\* and the save ends with nothing written.
SaveFails(i) ==
    /\ failedSaves' = failedSaves + 1
    /\ SaveEnds(i)
    /\ UNCHANGED <<replyShapes, modalVars, streamVars, markdown, autoSave,
                   vault, chatAssistants, changing>>

-----------------------------------------------------------------------------
(* ConversationModal.changeAssistant.                                       *)

\* The user selects another assistant of the selector: the assistant is
\* changed and the settings are being saved.
ChangeAssistant(assistantId) ==
    /\ opened /\ ~closed
    /\ assistantId \in chatAssistants
    /\ assistantId # chatAssistant
    /\ changing = "none"
    /\ nextId < MaxIds
    /\ loadingShown' = TRUE
    /\ chatAssistant' = assistantId
    /\ changing' = assistantId
    /\ UNCHANGED <<replyShapes, streamVars, saveVars, chatAssistants, opened,
                   closed, inputValue, isTestMode, chatSession, messages,
                   nextId, inputDisabled, saveTimers, sendPc,
                   waitingMessageId, responseMessageId, fullAnswer>>

\* A changeAssistant that goes on with the array the modal has.
SettingsSavedListKept ==
    /\ changing # "none"
    /\ chatSession' = ""
    /\ messages' = addMessage(messages, nextId, "assistant", WelcomeText, FALSE)
    /\ nextId' = nextId + 1
    /\ loadingShown' = FALSE
    /\ changing' = "none"
    /\ UNCHANGED <<replyShapes, streamVars, saveVars, chatAssistants, opened,
                   closed, inputValue, isTestMode, chatAssistant,
                   inputDisabled, saveTimers, sendPc, waitingMessageId,
                   responseMessageId, fullAnswer>>

\* saveSettings has resolved: the session and the list are new, the list
\* with the welcome message of the assistant. A save under way keeps the
\* array it was given.
SettingsSaved ==
    /\ changing # "none"
    /\ chatSession' = ""
    /\ messages' = addMessage(<<>>, nextId, "assistant", WelcomeText, FALSE)
    /\ nextId' = nextId + 1
    /\ loadingShown' = FALSE
    /\ changing' = "none"
    /\ saves' = [i \in DOMAIN saves |->
                    IF saves[i].list.attached
                    THEN [saves[i] EXCEPT !.list = Detached(messages)]
                    ELSE saves[i]]
    /\ UNCHANGED <<replyShapes, streamVars, markdown, autoSave, isSaving,
                   vault, failedSaves, chatAssistants, opened, closed,
                   inputValue, isTestMode, chatAssistant, inputDisabled,
                   saveTimers, sendPc, waitingMessageId, responseMessageId,
                   fullAnswer>>

\* saveSettings rejects: the catch block hides the loading indicator.
SettingsSaveFails ==
    /\ changing # "none"
    /\ loadingShown' = FALSE
    /\ changing' = "none"
    /\ UNCHANGED <<replyShapes, streamVars, saveVars, chatAssistants, opened,
                   closed, inputValue, isTestMode, chatAssistant, chatSession,
                   messages, nextId, inputDisabled, saveTimers, sendPc,
                   waitingMessageId, responseMessageId, fullAnswer>>

-----------------------------------------------------------------------------
(* The modal with its saves, and the modal with its selector, the service   *)
(* sending the lines of ShortLineKinds.                                     *)

NextSaving ==
    \/ Next
    \/ AutoSaveTimer
    \/ SaveButton
    \/ \E i \in DOMAIN saves : FolderReady(i)
    \/ \E i \in DOMAIN saves : NoteRead(i)
    \/ \E i \in DOMAIN saves : NoteWritten(i)
    \/ \E i \in DOMAIN saves : SaveFails(i)

SpecSaving == InitModal("short", BOOLEAN) /\ [][NextSaving]_vars

NextChanging ==
    \/ Next
    \/ \E assistantId \in Assistants : ChangeAssistant(assistantId)
    \/ SettingsSaved
    \/ SettingsSaveFails

SpecChanging == InitModal("short", {DefaultAutoSave}) /\ [][NextChanging]_vars

-----------------------------------------------------------------------------
(* Properties of the saves.                                                 *)

\* The exchanges of the conversation that have ended with a reply.
MockReplies == SelectSeq(messages, LAMBDA m : m.content = MockReplyText)

\* C28: at most one save is under way: a call of saveConversation made by
\* the timer while a save is under way starts no save and writes nothing,
\* and isSaving is true exactly while a save is under way, so that it is
\* false after every save, written or failed.
C28_OneSaveInFlight ==
    [][/\ (isSaving /\ saveTimers' < saveTimers) =>
              /\ saves' = saves
              /\ vault' = vault
              /\ isSaving'
       /\ Len(saves') <= 1
       /\ isSaving' <=> (saves' # <<>>)]_vars

\* Two exchanges have set their timers and both timers have fired, the
\* second during the save of the first, which has yet to write.
C28_Witness ==
    /\ autoSave
    /\ Len(MockReplies) = 2
    /\ saveTimers = 0
    /\ isSaving /\ Len(saves) = 1
    /\ Written = 0 /\ failedSaves = 0

LastTranscript(text) ==
    IF text = Absent \/ Transcripts(text) = 0 THEN <<>>
    ELSE LET start == CHOOSE i \in 1..Len(text) :
                          /\ text[i] = MarkdownHeader[1]
                          /\ \A j \in (i + 1)..Len(text) :
                                 text[j] # MarkdownHeader[1]
         IN SubSeq(text, start, Len(text))

\* The sections of a document that hold the text under the label of role.
SectionsWith(doc, role, text) ==
    {k \in 1..Len(Headings(doc)) :
        SectionAt(doc, k) = Section([role |-> role], text)}

\* No timer is set and no save is under way, and no save has failed.
SavesDone == saveTimers = 0 /\ saves = <<>> /\ failedSaves = 0

\* C21: with auto-save on, every exchange that has ended with its reply is
\* saved: once the timers have fired and the saves have ended with every
\* vault operation resolved, the note of the conversation ends with a
\* transcript that holds a question and an answer for each such exchange.
C21_ExchangesSaved ==
    (autoSave /\ SavesDone) =>
        \A note \in {LastTranscript(vault[NoteTitle(messages)])} :
            /\ Cardinality(SectionsWith(note, "assistant", MockReplyText))
                   >= Len(MockReplies)
            /\ Cardinality(SectionsWith(note, "user", <<"q">>))
                   >= Len(MockReplies)

-----------------------------------------------------------------------------
(* Properties of changeAssistant.                                           *)

\* A send is under way whose placeholder and reply message are not in the
\* list: the list was made new after the send began.
StaleSend ==
    /\ sendPc \in {"fetching", "streaming"}
    /\ \A i \in 1..Len(messages) :
           messages[i].id \notin {waitingMessageId, responseMessageId}

\* C30: a changeAssistant whose saveSettings resolves leaves the list with
\* the welcome message alone, also while a reply is streaming, and no step
\* of a send that began before changes a message of the new list: whatever
\* the send does, the list keeps its messages and at most gets another at
\* its end.
C30_NewListUntouched ==
    [][/\ (changing # "none" /\ changing' = "none" /\ messages' # messages) =>
              /\ Len(messages') = 1
              /\ messages'[1].id = nextId
              /\ messages'[1].role = "assistant"
              /\ messages'[1].content = WelcomeText
              /\ chatAssistant' = changing
       /\ (StaleSend /\ changing' = changing) => IsPrefix(messages, messages')]_vars

\* The assistant was changed while the reply was streaming: the stream goes
\* on, a delta has come, and the list holds the welcome message alone.
C30_Witness ==
    /\ StaleSend
    /\ sendPc = "streaming"
    /\ changing = "none"
    /\ chatAssistant # RealAssistantId
    /\ fullAnswer # <<>>
    /\ Len(messages) = 1 /\ messages[1].content = WelcomeText

====
